---- MODULE Spec2Model ----
(***************************************************************************)
(* Model of the sieman parsing and ingestion core:                         *)
(*   src/src/sieman/parser.py  (LogParser, SyslogParser, WebLogParser,     *)
(*                              create_parser)                             *)
(*   src/src/sieman/ingest.py  (LogIngestor and its factories)             *)
(*                                                                         *)
(* Text is modelled at character level: a Python str is a TLA+ string and  *)
(* every regular expression of the source is an operator that scans the    *)
(* characters the way the expression does.  The alphabet is ASCII and a    *)
(* line never holds a newline (the readers split and strip lines).         *)
(***************************************************************************)
EXTENDS Integers, Sequences, FiniteSets, TLC

-----------------------------------------------------------------------------
(* Python values.  Every value carries its type tag, so that "an integer"  *)
(* and "a string of digits" are different values.                          *)

PyStr(s) == [t |-> "str", s |-> s, n |-> 0, items |-> {}]

PyInt(n) == [t |-> "int", s |-> "", n |-> n, items |-> {}]

PyNone == [t |-> "NoneType", s |-> "", n |-> 0, items |-> {}]

\* list(set(...)): a list without duplicates whose order is not significant
PyList(S) == [t |-> "list", s |-> "", n |-> 0, items |-> S]

\* dict.get(key, default)
Get(d, k, default) == IF k \in DOMAIN d THEN d[k] ELSE default

\* d.update(new)
Update(d, new) == new @@ d

EmptyDict == [x \in {} |-> PyNone]

-----------------------------------------------------------------------------------------------------------------------------------------------------
(* Characters and character classes of the re module (ASCII).  A class is  *)
(* the set of its characters, or of the characters it excludes.            *)

Ch(s, i) == SubSeq(s, i, i)

DigitChars == {"0", "1", "2", "3", "4", "5", "6", "7", "8", "9"}

UpperAlphabet == "ABCDEFGHIJKLMNOPQRSTUVWXYZ"

LowerAlphabet == "abcdefghijklmnopqrstuvwxyz"

UpperChars == {Ch(UpperAlphabet, i) : i \in 1..Len(UpperAlphabet)}

LowerChars == {Ch(LowerAlphabet, i) : i \in 1..Len(LowerAlphabet)}

SpaceChars == {" ", "\t"}

\* \d
Digit == [chars |-> DigitChars, neg |-> FALSE]

\* [A-Za-z]
Alpha == [chars |-> UpperChars \cup LowerChars, neg |-> FALSE]

\* \w
Word == [chars |-> UpperChars \cup LowerChars \cup DigitChars \cup {"_"}, neg |-> FALSE]

\* \s
Space == [chars |-> SpaceChars, neg |-> FALSE]

\* \S
NonSpace == [chars |-> SpaceChars, neg |-> TRUE]

\* [0-9a-fA-F]
Hex == [chars |-> DigitChars \cup {"a", "b", "c", "d", "e", "f", "A", "B", "C", "D", "E", "F"}, neg |-> FALSE]

\* [:\s]
ColonOrSpace == [chars |-> SpaceChars \cup {":"}, neg |-> FALSE]

\* [a-zA-Z0-9_\-\.@]
UserChar == [chars |-> UpperChars \cup LowerChars \cup DigitChars \cup {"_", "-", ".", "@"}, neg |-> FALSE]

\* [^\s:]
ProgramChar == [chars |-> SpaceChars \cup {":"}, neg |-> TRUE]

\* [^\]]
NotBracket == [chars |-> {"]"}, neg |-> TRUE]

InClass(class, c) == (c \in class.chars) # class.neg

IsSpace(c) == c \in SpaceChars

IsWord(c) == c \in Word.chars

RECURSIVE LowerTable(_)
LowerTable(i) == IF i = 0 THEN <<>> ELSE (Ch(UpperAlphabet, i) :> Ch(LowerAlphabet, i)) @@ LowerTable(i - 1)

LowerOf == LowerTable(Len(UpperAlphabet))

\* str.lower() of one character
LowerCh(c) == IF c \in UpperChars THEN LowerOf[c] ELSE c

RECURSIVE ToLowerRange(_, _, _)
\* the lower-cased characters i..j of s, by halves
ToLowerRange(s, i, j) == IF i > j THEN "" ELSE IF i = j THEN LowerCh(Ch(s, i)) ELSE ToLowerRange(s, i, (i + j) \div 2) \o ToLowerRange(s, ((i + j) \div 2) + 1, j)

\* str.lower()
ToLower(s) == ToLowerRange(s, 1, Len(s))

\* the least element of a set of numbers
Min(S) == CHOOSE m \in S : \A x \in S : m <= x

\* needle in haystack
Contains(s, w) == \E i \in 1..(Len(s) - Len(w) + 1) : SubSeq(s, i, i + Len(w) - 1) = w

RECURSIVE LStripFrom(_, _)
LStripFrom(s, i) == IF i <= Len(s) /\ IsSpace(Ch(s, i)) THEN LStripFrom(s, i + 1) ELSE i

RECURSIVE RStripFrom(_, _)
RStripFrom(s, j) == IF j >= 1 /\ IsSpace(Ch(s, j)) THEN RStripFrom(s, j - 1) ELSE j

\* str.strip()
Strip(s) == SubSeq(s, LStripFrom(s, 1), RStripFrom(s, Len(s)))

RECURSIVE RunEnd(_, _, _)
\* the position after the longest run of characters of the class that
\* starts at i (i itself when s[i] is not in the class): what a greedy
\* class* consumes
RunEnd(s, i, class) == IF i <= Len(s) /\ InClass(class, Ch(s, i)) THEN RunEnd(s, i + 1, class) ELSE i

\* \b before position i (i in 1..Len(s)+1)
WordBoundary(s, i) == (i > 1 /\ IsWord(Ch(s, i - 1))) # (i <= Len(s) /\ IsWord(Ch(s, i)))

\* the literal w at position i
LitAt(s, i, w) == i >= 1 /\ i + Len(w) - 1 <= Len(s) /\ SubSeq(s, i, i + Len(w) - 1) = w

\* the literal w at position i under re.IGNORECASE (w is lower case)
LitAtCI(s, i, w) == i >= 1 /\ i + Len(w) - 1 <= Len(s) /\ \A k \in 1..Len(w) : LowerCh(Ch(s, i + k - 1)) = Ch(w, k)

\* exactly n characters of the class at position i
ClassAt(s, i, n, class) == i >= 1 /\ i + n - 1 <= Len(s) /\ \A k \in i..(i + n - 1) : InClass(class, Ch(s, k))

RECURSIVE DigitsToInt(_)
\* int(text) for a text of decimal digits
DigitsToInt(s) == IF s = "" THEN 0 ELSE 10 * DigitsToInt(SubSeq(s, 1, Len(s) - 1)) + (CHOOSE d \in 0..9 : Ch("0123456789", d + 1) = Ch(s, Len(s)))

RECURSIVE ToDecimal(_)
\* str(n) for n >= 0
ToDecimal(n) == IF n < 10 THEN Ch("0123456789", n + 1) ELSE ToDecimal(n \div 10) \o Ch("0123456789", (n % 10) + 1)

-----
(* The compiled patterns of a parser (LogParser._load_patterns).  A pattern *)
(* is kept as the data its matcher below reads: the alternatives of a      *)
(* keyword pattern, the shape of an address pattern.                       *)

_load_patterns == [ip_v4 |-> [class |-> Digit, max |-> 3, sep |-> ".", groups |-> 3], ip_v6 |-> [class |-> Hex, max |-> 4, sep |-> ":", groups |-> 7], timestamp_iso |-> "iso", timestamp_common |-> "common", user_pattern |-> "user", error_patterns |-> {"error", "fail", "exception", "critical"}, warning_patterns |-> {"warn", "warning", "alert"}]

\* \d{2}:\d{2}:\d{2} at position i
HmsAt(s, i) == ClassAt(s, i, 2, Digit) /\ LitAt(s, i + 2, ":") /\ ClassAt(s, i + 3, 2, Digit) /\ LitAt(s, i + 5, ":") /\ ClassAt(s, i + 6, 2, Digit)

\* \d{4}-\d{2}-\d{2}T\d{2}:\d{2}:\d{2} at position i (19 characters)
IsoAt(s, i) == ClassAt(s, i, 4, Digit) /\ LitAt(s, i + 4, "-") /\ ClassAt(s, i + 5, 2, Digit) /\ LitAt(s, i + 7, "-") /\ ClassAt(s, i + 8, 2, Digit) /\ LitAt(s, i + 10, "T") /\ HmsAt(s, i + 11)

\* P{3}\s+\d{1,2}\s+\d{2}:\d{2}:\d{2} at position i: the position after the
\* match, 0 when there is none.  Each greedy run is followed by a character
\* outside its class, so only the longest run can match.
DateEnd(s, i, class) == IF ~ClassAt(s, i, 3, class) THEN 0 ELSE LET b == RunEnd(s, i + 3, Space) c == RunEnd(s, b, Digit) d == RunEnd(s, c, Space) IN IF b > i + 3 /\ c - b \in {1, 2} /\ d > c /\ HmsAt(s, d) THEN d + 8 ELSE 0

\* datetime.now().isoformat(): the text of the wall clock, here a count of
\* seconds below one minute
IsoFormat(clock) == "2025-08-20T17:02:" \o (IF clock < 10 THEN "0" ELSE "") \o ToDecimal(clock)

_extract_timestamp(patterns, message, clock) == IF \E i \in 1..Len(message) : IsoAt(message, i) THEN LET i == CHOOSE k \in 1..Len(message) : IsoAt(message, k) /\ \A l \in 1..(k - 1) : ~IsoAt(message, l) IN PyStr(SubSeq(message, i, i + 18)) ELSE IF \E i \in 1..Len(message) : DateEnd(message, i, Word) # 0 THEN PyStr(IsoFormat(clock)) ELSE PyNone

RECURSIVE AddrGroupsEnd(_, _, _, _)
\* (?:C{1,max}sep){k} at position i: the position after it, 0 when no match
AddrGroupsEnd(s, i, pat, k) == IF k = 0 THEN i ELSE LET e == RunEnd(s, i, pat.class) IN IF e > i /\ e - i <= pat.max /\ LitAt(s, e, pat.sep) THEN AddrGroupsEnd(s, e + 1, pat, k - 1) ELSE 0

\* \b(?:C{1,max}sep){groups}C{1,max}\b at position i: the position after the
\* match, 0 when there is none
AddrEnd(s, i, pat) == IF ~WordBoundary(s, i) THEN 0 ELSE LET g == AddrGroupsEnd(s, i, pat, pat.groups) IN IF g = 0 THEN 0 ELSE LET e == RunEnd(s, g, pat.class) IN IF e > g /\ e - g <= pat.max /\ WordBoundary(s, e) THEN e ELSE 0

RECURSIVE FindAddrs(_, _, _)
\* pattern.findall(message) from position i: the non-overlapping matches,
\* leftmost first, as the set of their texts
FindAddrs(s, i, pat) == LET starts == {k \in i..Len(s) : AddrEnd(s, k, pat) # 0} IN IF starts = {} THEN {} ELSE LET k == Min(starts) e == AddrEnd(s, k, pat) IN {SubSeq(s, k, e - 1)} \cup FindAddrs(s, e, pat)

_extract_ip_addresses(patterns, message) == PyList(FindAddrs(message, 1, patterns.ip_v4) \cup FindAddrs(message, 1, patterns.ip_v6))

RECURSIVE FindUsers(_, _)
\* user[:\s]+([a-zA-Z0-9_\-\.@]+) under re.IGNORECASE, findall from position
\* i: the texts of group 1.  UserEnd is the position after a match at i, 0
\* when there is none.
UserEnd(s, i) == IF ~LitAtCI(s, i, "user") THEN 0 ELSE LET b == RunEnd(s, i + 4, ColonOrSpace) c == RunEnd(s, b, UserChar) IN IF b > i + 4 /\ c > b THEN c ELSE 0

FindUsers(s, i) == LET starts == {k \in i..Len(s) : UserEnd(s, k) # 0} IN IF starts = {} THEN {} ELSE LET k == Min(starts) e == UserEnd(s, k) IN {SubSeq(s, RunEnd(s, k + 4, ColonOrSpace), e - 1)} \cup FindUsers(s, e)

_extract_users(patterns, message) == PyList(FindUsers(message, 1))

\* \b(w1|w2|...)\b under re.IGNORECASE, search
SearchWords(s, words) == \E i \in 1..Len(s) : \E w \in words : LitAtCI(s, i, w) /\ WordBoundary(s, i) /\ WordBoundary(s, i + Len(w))

\* \b(w1|w2|...)\b compiled without re.IGNORECASE, search
SearchWordsCaseSensitive(s, words) == \E i \in 1..Len(s) : \E w \in words : LitAt(s, i, w) /\ WordBoundary(s, i) /\ WordBoundary(s, i + Len(w))

\* the classification with the keyword patterns compiled without
\* re.IGNORECASE
ClassifyCaseSensitive(patterns, message) == LET message_lower == ToLower(message) IN IF SearchWordsCaseSensitive(message, patterns.error_patterns) THEN "ERROR" ELSE IF SearchWordsCaseSensitive(message, patterns.warning_patterns) THEN "WARNING" ELSE IF \E word \in {"info", "information"} : Contains(message_lower, word) THEN "INFO" ELSE IF Contains(message_lower, "debug") THEN "DEBUG" ELSE "INFO"

_classify_log_level(patterns, message) == LET message_lower == ToLower(message) IN IF SearchWords(message, patterns.error_patterns) THEN "ERROR" ELSE IF SearchWords(message, patterns.warning_patterns) THEN "WARNING" ELSE IF \E word \in {"info", "information"} : Contains(message_lower, word) THEN "INFO" ELSE IF Contains(message_lower, "debug") THEN "DEBUG" ELSE "INFO"

-----------------------------------------------------------------------------
(* The parsers.  A call of parse is modelled by its outcome:                *)
(*   raised - the exception that leaves the call ("" when it returns)       *)
(*   result - the record returned (the empty dict when the call raised)     *)
(*   entry  - the caller's record after the call                            *)
(*   self   - the parser instance after the call                            *)

\* parsed_entry = log_entry: the result is the caller's dict itself
DictAlias(d) == [value |-> d, alias |-> TRUE]

\* log_entry.copy(): a new dict with the same items, not an alias of the
\* caller's dict
DictCopy(d) == [value |-> d, alias |-> FALSE]

LogParser_init(config) == [kind |-> "LogParser", config |-> config, patterns |-> _load_patterns]

\* pattern.search / findall over a message that is not a str raises
\* TypeError, whichever extraction comes first
LogParser_parse(self, log_entry, clock) == LET copy == DictCopy(log_entry) message == Get(log_entry, "message", PyStr("")) IN IF message.t # "str" THEN [raised |-> "TypeError", result |-> EmptyDict, entry |-> log_entry, self |-> self] ELSE LET stamped == IF "timestamp" \notin DOMAIN copy.value THEN Update(copy.value, "timestamp" :> _extract_timestamp(self.patterns, message.s, clock)) ELSE copy.value parsed_entry == Update(stamped, ("ip_addresses" :> _extract_ip_addresses(self.patterns, message.s)) @@ ("users" :> _extract_users(self.patterns, message.s)) @@ ("log_level" :> PyStr(_classify_log_level(self.patterns, message.s)))) IN [raised |-> "", result |-> parsed_entry, entry |-> IF copy.alias THEN parsed_entry ELSE log_entry, self |-> self]

SyslogParser_init(config) == [kind |-> "SyslogParser", config |-> config, patterns |-> _load_patterns]

\* <(\d+)>([A-Za-z]{3}\s+\d{1,2}\s+\d{2}:\d{2}:\d{2})\s+(\S+)\s+([^\s:]+)(?::|\s)(.*)
\* matched at the start of the message.  \S+ and [^\s:]+ are greedy and each
\* is followed by a character outside its class, so the groups are the
\* longest runs; a shorter run leaves a character the next item rejects.
syslog_pattern_match(s) == LET p == RunEnd(s, 2, Digit) d == DateEnd(s, p + 1, Alpha) h0 == RunEnd(s, d, Space) h1 == RunEnd(s, h0, NonSpace) g0 == RunEnd(s, h1, Space) g1 == RunEnd(s, g0, ProgramChar) IN IF LitAt(s, 1, "<") /\ p > 2 /\ LitAt(s, p, ">") /\ d # 0 /\ h0 > d /\ h1 > h0 /\ g0 > h1 /\ g1 > g0 /\ g1 <= Len(s) THEN [matched |-> TRUE, priority |-> SubSeq(s, 2, p - 1), timestamp |-> SubSeq(s, p + 1, d - 1), hostname |-> SubSeq(s, h0, h1 - 1), program |-> SubSeq(s, g0, g1 - 1), msg |-> SubSeq(s, g1 + 1, Len(s))] ELSE [matched |-> FALSE, priority |-> "", timestamp |-> "", hostname |-> "", program |-> "", msg |-> ""]

\* facility = priority_int % 8: the two parts of the priority taken for each
\* other
FacilityByMod(priority_int) == priority_int % 8

\* facility = priority_int // 8
Facility(priority_int) == priority_int \div 8

\* severity = priority_int // 8
SeverityByDiv(priority_int) == priority_int \div 8

\* severity = priority_int % 8
Severity(priority_int) == priority_int % 8

SyslogParser_parse(self, log_entry, clock) == LET base == LogParser_parse(self, log_entry, clock) IN IF base.raised # "" THEN base ELSE LET match == syslog_pattern_match(Get(log_entry, "message", PyStr("")).s) IN IF ~match.matched THEN base ELSE LET priority_int == DigitsToInt(match.priority) facility == Facility(priority_int) severity == Severity(priority_int) parsed_entry == Update(base.result, [syslog_facility |-> PyInt(facility), syslog_severity |-> PyInt(severity), hostname |-> PyStr(match.hostname), program |-> PyStr(match.program), parsed_message |-> PyStr(Strip(match.msg))]) IN [base EXCEPT !.result = parsed_entry]

WebLogParser_init(config) == [kind |-> "WebLogParser", config |-> config, patterns |-> _load_patterns]

\* (\S+) \S+ \S+ \[([^\]]+)\] "(\S+) (\S+) (\S+)" (\d+) (\S+)
\* matched at the start of the message.  Every \S+ before a literal space is
\* the longest run; the protocol is followed by a quote and a space, so it
\* is the run without its last character, which is the quote.
common_log_pattern_match(s) == LET a1 == RunEnd(s, 1, NonSpace) b1 == RunEnd(s, a1 + 1, NonSpace) c1 == RunEnd(s, b1 + 1, NonSpace) t1 == RunEnd(s, c1 + 2, NotBracket) m1 == RunEnd(s, t1 + 3, NonSpace) u1 == RunEnd(s, m1 + 1, NonSpace) p1 == RunEnd(s, u1 + 1, NonSpace) s1 == RunEnd(s, p1 + 1, Digit) z1 == RunEnd(s, s1 + 1, NonSpace) IN IF a1 > 1 /\ LitAt(s, a1, " ") /\ b1 > a1 + 1 /\ LitAt(s, b1, " ") /\ c1 > b1 + 1 /\ LitAt(s, c1, " [") /\ t1 > c1 + 2 /\ LitAt(s, t1, "] \"") /\ m1 > t1 + 3 /\ LitAt(s, m1, " ") /\ u1 > m1 + 1 /\ LitAt(s, u1, " ") /\ p1 > u1 + 2 /\ LitAt(s, p1 - 1, "\" ") /\ s1 > p1 + 1 /\ LitAt(s, s1, " ") /\ z1 > s1 + 1 THEN [matched |-> TRUE, ip |-> SubSeq(s, 1, a1 - 1), timestamp |-> SubSeq(s, c1 + 2, t1 - 1), method |-> SubSeq(s, t1 + 3, m1 - 1), url |-> SubSeq(s, m1 + 1, u1 - 1), protocol |-> SubSeq(s, u1 + 1, p1 - 2), status |-> SubSeq(s, p1 + 1, s1 - 1), size |-> SubSeq(s, s1 + 1, z1 - 1)] ELSE [matched |-> FALSE, ip |-> "", timestamp |-> "", method |-> "", url |-> "", protocol |-> "", status |-> "", size |-> ""]

\* size if size != '-' else 0
ResponseSize(size) == IF size # "-" THEN PyStr(size) ELSE PyInt(0)

WebLogParser_parse(self, log_entry, clock) == LET base == LogParser_parse(self, log_entry, clock) IN IF base.raised # "" THEN base ELSE LET match == common_log_pattern_match(Get(log_entry, "message", PyStr("")).s) IN IF ~match.matched THEN base ELSE LET parsed_entry == Update(base.result, [client_ip |-> PyStr(match.ip), http_method |-> PyStr(match.method), url |-> PyStr(match.url), http_protocol |-> PyStr(match.protocol), status_code |-> PyInt(DigitsToInt(match.status)), response_size |-> ResponseSize(match.size)]) IN [base EXCEPT !.result = parsed_entry]

\* the method the instance's class resolves parse to
parse(self, log_entry, clock) == IF self.kind = "SyslogParser" THEN SyslogParser_parse(self, log_entry, clock) ELSE IF self.kind = "WebLogParser" THEN WebLogParser_parse(self, log_entry, clock) ELSE LogParser_parse(self, log_entry, clock)

\* parsers.get(parser_type, LogParser)(kwargs)
create_parser(parser_type, kwargs) == IF parser_type = "syslog" THEN SyslogParser_init(kwargs) ELSE IF parser_type = "web" THEN WebLogParser_init(kwargs) ELSE LogParser_init(kwargs)

-----------------------------------------------------------------------------
(* The source readers.  A file is [kind, lines]: kind is "file", "dir" or   *)
(* "missing", lines the text lines of a file.  An I/O failure is an input   *)
(* of a call: fail_at = 0 when open() fails, k when reading line k fails,   *)
(* and a value beyond the last line when nothing fails.  A generator is     *)
(* modelled by what a caller that consumes it to the end gets:              *)
(*   records - the records yielded, in order                                *)
(*   raised  - the exception that reaches the caller ("" when none)         *)

\* json.loads(line) on the lines the model reads: an object with the single
\* member "message" holding a string without escapes, the values of
\* JsonValues, and undecodable text (JSONDecodeError) for anything else
JsonMessagePrefix == "{\"message\": \""

JsonMessageSuffix == "\"}"

JsonMessageLine(message) == JsonMessagePrefix \o message \o JsonMessageSuffix

IsJsonMessageLine(t) == Len(t) >= Len(JsonMessagePrefix) + Len(JsonMessageSuffix) /\ LitAt(t, 1, JsonMessagePrefix) /\ LitAt(t, Len(t) - 1, JsonMessageSuffix) /\ \A i \in (Len(JsonMessagePrefix) + 1)..(Len(t) - 2) : Ch(t, i) \notin {"\"", "\\"}

JsonValues == ("{\"message\": null}" :> [isdict |-> TRUE, dict |-> ("message" :> PyNone), value |-> PyNone]) @@ ("{\"message\": 42}" :> [isdict |-> TRUE, dict |-> ("message" :> PyInt(42)), value |-> PyNone]) @@ ("{\"level\": \"ERROR\", \"log_level\": \"AUDIT\"}" :> [isdict |-> TRUE, dict |-> ("level" :> PyStr("ERROR")) @@ ("log_level" :> PyStr("AUDIT")), value |-> PyNone]) @@ ("{\"message\": \"warning: retry\", \"log_level\": \"AUDIT\", \"timestamp\": \"2025-08-20T17:02:01Z\"}" :> [isdict |-> TRUE, dict |-> ("message" :> PyStr("warning: retry")) @@ ("log_level" :> PyStr("AUDIT")) @@ ("timestamp" :> PyStr("2025-08-20T17:02:01Z")), value |-> PyNone]) @@ ("42" :> [isdict |-> FALSE, dict |-> EmptyDict, value |-> PyInt(42)]) @@ ("null" :> [isdict |-> FALSE, dict |-> EmptyDict, value |-> PyNone]) @@ ("\"text\"" :> [isdict |-> FALSE, dict |-> EmptyDict, value |-> PyStr("text")])

json_loads(line) == LET t == Strip(line) IN IF IsJsonMessageLine(t) THEN [ok |-> TRUE, isdict |-> TRUE, dict |-> ("message" :> PyStr(SubSeq(t, Len(JsonMessagePrefix) + 1, Len(t) - 2))), value |-> PyNone] ELSE IF t \in DOMAIN JsonValues THEN [ok |-> TRUE, isdict |-> JsonValues[t].isdict, dict |-> JsonValues[t].dict, value |-> JsonValues[t].value] ELSE [ok |-> FALSE, isdict |-> FALSE, dict |-> EmptyDict, value |-> PyNone]

\* no except clause: the exception leaves the generator
PropagateException(outcome) == outcome

\* except Exception as e: logger.error(...): the generator ends, nothing
\* reaches the caller
ExceptException(outcome) == [outcome EXCEPT !.raised = ""]

Returned == [records |-> <<>>, raised |-> ""]

Raised(exception) == [records |-> <<>>, raised |-> exception]

\* the record _ingest_text yields for a line
TextRecord(line, file_path, line_num, clock) == ("message" :> PyStr(Strip(line))) @@ ("timestamp" :> PyStr(IsoFormat(clock))) @@ ("_file_source" :> PyStr(file_path)) @@ ("_line_number" :> PyInt(line_num))

RECURSIVE TextLoop(_, _, _, _, _)
\* for line_num, line in enumerate(f, 1) of _ingest_text, from line_num on
TextLoop(lines, line_num, fail_at, file_path, clock) == IF line_num > Len(lines) THEN Returned ELSE IF fail_at = line_num THEN Raised("OSError") ELSE IF Strip(lines[line_num]) = "" THEN TextLoop(lines, line_num + 1, fail_at, file_path, clock) ELSE [TextLoop(lines, line_num + 1, fail_at, file_path, clock) EXCEPT !.records = <<TextRecord(lines[line_num], file_path, line_num, clock)>> \o @]

_ingest_text(file, file_path, fail_at, clock) == ExceptException(IF file.kind # "file" \/ fail_at = 0 THEN Raised("OSError") ELSE TextLoop(file.lines, 1, fail_at, file_path, clock))

\* the record _ingest_json yields for a decoded object
JsonRecord(entry, file_path, line_num) == Update(entry, ("_file_source" :> PyStr(file_path)) @@ ("_line_number" :> PyInt(line_num)))

RECURSIVE JsonLoop(_, _, _, _)
\* for line_num, line in enumerate(f, 1) of _ingest_json, from line_num on.
\* Only JSONDecodeError is caught inside the loop; the item assignment on a
\* decoded value that is no dict raises TypeError, which leaves the loop.
JsonLoop(lines, line_num, fail_at, file_path) == IF line_num > Len(lines) THEN Returned ELSE IF fail_at = line_num THEN Raised("OSError") ELSE IF Strip(lines[line_num]) = "" THEN JsonLoop(lines, line_num + 1, fail_at, file_path) ELSE LET decoded == json_loads(lines[line_num]) IN IF ~decoded.ok THEN JsonLoop(lines, line_num + 1, fail_at, file_path) ELSE IF ~decoded.isdict THEN Raised("TypeError") ELSE [JsonLoop(lines, line_num + 1, fail_at, file_path) EXCEPT !.records = <<JsonRecord(decoded.dict, file_path, line_num)>> \o @]

_ingest_json(file, file_path, fail_at) == ExceptException(IF file.kind # "file" \/ fail_at = 0 THEN Raised("OSError") ELSE JsonLoop(file.lines, 1, fail_at, file_path))

RECURSIVE Split(_, _)
\* the fields of a csv line without quoting
Split(s, sep) == IF ~Contains(s, sep) THEN <<s>> ELSE LET i == CHOOSE k \in 1..Len(s) : Ch(s, k) = sep /\ \A l \in 1..(k - 1) : Ch(s, l) # sep IN <<SubSeq(s, 1, i - 1)>> \o Split(SubSeq(s, i + 1, Len(s)), sep)

\* dict(zip(fieldnames, row)) with restval None for the missing fields, for
\* a row that is not longer than the header
CsvRow(fieldnames, row) == [key \in {fieldnames[i] : i \in 1..Len(fieldnames)} |-> LET i == CHOOSE k \in 1..Len(fieldnames) : fieldnames[k] = key IN IF i <= Len(row) THEN PyStr(row[i]) ELSE PyNone]

RECURSIVE CsvLoop(_, _, _, _, _, _)
\* for line_num, row in enumerate(reader, 1) of _ingest_csv: DictReader
\* skips the empty rows, and line_num counts the rows it returns
CsvLoop(lines, fieldnames, at, line_num, fail_at, file_path) == IF at > Len(lines) THEN Returned ELSE IF fail_at = at THEN Raised("OSError") ELSE IF lines[at] = "" THEN CsvLoop(lines, fieldnames, at + 1, line_num, fail_at, file_path) ELSE [CsvLoop(lines, fieldnames, at + 1, line_num + 1, fail_at, file_path) EXCEPT !.records = <<Update(CsvRow(fieldnames, Split(lines[at], ",")), ("_file_source" :> PyStr(file_path)) @@ ("_line_number" :> PyInt(line_num)))>> \o @]

_ingest_csv(file, file_path, fail_at) == ExceptException(IF file.kind # "file" \/ fail_at = 0 THEN Raised("OSError") ELSE IF file.lines = <<>> THEN Returned ELSE IF fail_at = 1 THEN Raised("OSError") ELSE CsvLoop(file.lines, Split(file.lines[1], ","), 2, 1, fail_at, file_path))

\* Path(file_path).name
PathName(file_path) == IF ~Contains(file_path, "/") THEN file_path ELSE LET i == CHOOSE k \in 1..Len(file_path) : Ch(file_path, k) = "/" /\ \A l \in (k + 1)..Len(file_path) : Ch(file_path, l) # "/" IN SubSeq(file_path, i + 1, Len(file_path))

\* Path(file_path).suffix
PathSuffix(file_path) == LET name == PathName(file_path) IN IF ~Contains(name, ".") THEN "" ELSE LET i == CHOOSE k \in 1..Len(name) : Ch(name, k) = "." /\ \A l \in (k + 1)..Len(name) : Ch(name, l) # "." IN IF i > 1 /\ i < Len(name) THEN SubSeq(name, i, Len(name)) ELSE ""

ingest_file(files, file_path, fail_at, clock) == IF files[file_path].kind = "missing" THEN Returned ELSE LET file_ext == ToLower(PathSuffix(file_path)) IN IF file_ext = ".json" THEN _ingest_json(files[file_path], file_path, fail_at) ELSE IF file_ext = ".csv" THEN _ingest_csv(files[file_path], file_path, fail_at) ELSE _ingest_text(files[file_path], file_path, fail_at, clock)

\* path.rglob("*.log"): the entries below the directory whose name ends in
\* .log, as a set; the file system decides the order they come in
RGlobLog(files, directory_path) == {p \in DOMAIN files : files[p].kind # "missing" /\ LitAt(p, 1, directory_path \o "/") /\ Len(PathName(p)) >= 4 /\ LitAt(p, Len(p) - 3, ".log")}

RECURSIVE DirectoryLoop(_, _, _, _, _)
\* for file_path in path.rglob("*.log"): yield from self.ingest_file(...)
DirectoryLoop(files, order, i, faults, clock) == IF i > Len(order) THEN Returned ELSE LET one == ingest_file(files, order[i], faults[order[i]], clock) IN IF one.raised # "" THEN one ELSE [DirectoryLoop(files, order, i + 1, faults, clock) EXCEPT !.records = one.records \o @]

ingest_directory(files, directory_path, order, faults, clock) == IF directory_path \notin DOMAIN files \/ files[directory_path].kind # "dir" THEN Returned ELSE DirectoryLoop(files, order, 1, faults, clock)

LogIngestor_init(config) == [kind |-> "LogIngestor", config |-> config, supported_formats |-> <<"json", "csv", "syslog", "txt">>]

facility_names == (0 :> "kernel") @@ (1 :> "user") @@ (2 :> "mail") @@ (3 :> "daemon") @@ (4 :> "auth") @@ (5 :> "syslog") @@ (6 :> "lpr") @@ (7 :> "news")

severity_names == (0 :> "emergency") @@ (1 :> "alert") @@ (2 :> "critical") @@ (3 :> "error") @@ (4 :> "warning") @@ (5 :> "notice") @@ (6 :> "info") @@ (7 :> "debug")

SyslogIngestor_init(config) == [kind |-> "SyslogIngestor", config |-> config, supported_formats |-> <<"json", "csv", "syslog", "txt">>, facility_names |-> facility_names, severity_names |-> severity_names]

WindowsEventLogIngestor_init(config) == [kind |-> "WindowsEventLogIngestor", config |-> config, supported_formats |-> <<"json", "csv", "syslog", "txt">>]

\* ingestors.get(log_type, LogIngestor)(kwargs)
create_ingestor(log_type, kwargs) == IF log_type = "syslog" THEN SyslogIngestor_init(kwargs) ELSE IF log_type = "windows" THEN WindowsEventLogIngestor_init(kwargs) ELSE LogIngestor_init(kwargs)

-----------------------------------------------------------------------------
(* Bounds and inputs.                                                      *)

\* the wall clock runs from 0 to MaxClock
MaxClock == 1

\* parse calls made on one record
MaxCalls == 2

\* PRI values 0..MaxPri, next to the larger ones of LargePris
MaxPri == 9

\* lines of a .log file of the ingested directory
MaxLogLines == 2

\* lines of the ingested .json file
MaxJsonLines == 3

ParserTypes == {"generic", "syslog", "web", "json"}

IngestorTypes == {"generic", "syslog", "windows", "json"}

\* messages read from a plain-text source
TextSamples == <<"<34>Aug 20 17:02:01 server1 sshd: Failed password for user from 192.168.1.100 port 22 ssh2", "127.0.0.1 - - [10/Oct/2020:13:55:36] \"GET /index.html HTTP/1.0\" 200 -", "127.0.0.1 - - [10/Oct/2020:13:55:36] \"GET /index.html HTTP/1.0\" 200 2326", "ERROR: disk full", "error: disk full", "login FAIL for user: bob", "Warning: low memory", "", "warnings pending", "INFO service started", "Debug trace enabled", "connection established", "2025-08-20T17:02:01 alert raised", "Jan  5 00:00:59 host cron: job done", "critical exception in DEBUG mode">>

\* the same messages as the lines of a JSON-lines source (those that need no
\* escaping), with the other decodable objects and one undecodable line
JsonSamples == [i \in {k \in 1..Len(TextSamples) : ~Contains(TextSamples[k], "\"")} |-> JsonMessageLine(TextSamples[i])]

JsonObjectSamples == <<"{\"message\": null}", "{\"message\": 42}", "{bad json", "{\"level\": \"ERROR\", \"log_level\": \"AUDIT\"}", "{\"message\": \"warning: retry\", \"log_level\": \"AUDIT\", \"timestamp\": \"2025-08-20T17:02:01Z\"}">>

CsvSamples == <<"timestamp,level,message", "2025-08-20 17:02:01,ERROR,Authentication failed", "", "2025-08-20 17:02:02,INFO">>

SeqOfFunction(f) == [i \in 1..Cardinality(DOMAIN f) |-> f[CHOOSE k \in DOMAIN f : Cardinality({l \in DOMAIN f : l < k}) = i - 1]]

\* the sources the parsers are fed from
SampleFiles == ("samples/messages.log" :> [kind |-> "file", lines |-> TextSamples]) @@ ("samples/events.json" :> [kind |-> "file", lines |-> SeqOfFunction(JsonSamples) \o JsonObjectSamples]) @@ ("samples/rows.csv" :> [kind |-> "file", lines |-> CsvSamples])

LargePris == {34, 63, 64, 134, 191, 999}

PriValues == (0..MaxPri) \cup LargePris

Hostnames == {"server1", "h:x"}

Programs == {"sshd", "su-do"}

Payloads == {"", "Failed password", "  spaced  out ", ": x"}

\* <PRI>Mon D HH:MM:SS hostname program: message
BuildSyslog(pri, hostname, program, message) == "<" \o ToDecimal(pri) \o ">" \o "Aug 20 17:02:01" \o " " \o hostname \o " " \o program \o ": " \o message

TextLines == {"", "ERROR: disk full"}

JsonLines == {"", "{\"message\": \"ok\"}", "42", "{bad json"}

RECURSIVE SeqsUpTo(_, _)
\* the sequences over S of length at most n
SeqsUpTo(S, n) == IF n = 0 THEN {<<>>} ELSE LET shorter == SeqsUpTo(S, n - 1) IN shorter \cup {Append(q, x) : q \in shorter, x \in S}

LogFiles == {[kind |-> "file", lines |-> l] : l \in SeqsUpTo(TextLines, MaxLogLines)} \cup {[kind |-> "missing", lines |-> <<>>]}

JsonFiles == {[kind |-> "file", lines |-> l] : l \in SeqsUpTo(JsonLines, MaxJsonLines)}

Directory == [kind |-> "dir", lines |-> <<>>]

Missing == [kind |-> "missing", lines |-> <<>>]

\* a directory of two .log files and a .json file, next to a path that
\* does not exist
IngestFiles(app, auth, events) == ("logs" :> Directory) @@ ("logs/app.log" :> app) @@ ("logs/sub" :> Directory) @@ ("logs/sub/auth.log" :> auth) @@ ("logs/events.json" :> events) @@ ("nowhere" :> Missing)

FileSystems == {IngestFiles(app, auth, [kind |-> "file", lines |-> <<>>]) : app \in LogFiles, auth \in LogFiles} \cup {IngestFiles(Missing, Missing, events) : events \in JsonFiles}

-----------------------------------------------------------------------------
(* The state.                                                              *)

VARIABLES parser, ingestor, fs, now, pc, log_entry, origin, history, call, output, escaped

vars == <<parser, ingestor, fs, now, pc, log_entry, origin, history, call, output, escaped>>

NoOrigin == [built |-> FALSE, pri |-> 0, hostname |-> "", program |-> "", message |-> ""]

NoCall == [op |-> "", path |-> "", order |-> <<>>, faults |-> EmptyDict]

\* the fail_at of a call in which nothing fails
NoFault(file) == Len(file.lines) + 1

Idle == /\ pc = "idle"
        /\ log_entry = EmptyDict
        /\ origin = NoOrigin
        /\ history = <<>>

NoIngest == /\ call = NoCall
            /\ output = <<>>
            /\ escaped = ""

\* a parser is created and fed from the sample sources
Init == /\ parser \in {create_parser(parser_type, EmptyDict) : parser_type \in ParserTypes}
        /\ ingestor = create_ingestor("generic", EmptyDict)
        /\ fs = SampleFiles
        /\ now = 0
        /\ Idle
        /\ NoIngest

\* an ingestor is created over a file system
InitIngest == /\ parser = create_parser("generic", EmptyDict)
              /\ ingestor \in {create_ingestor(log_type, EmptyDict) : log_type \in IngestorTypes}
              /\ fs \in FileSystems
              /\ now = 0
              /\ Idle
              /\ NoIngest

\* the wall clock advances
Tick == /\ now < MaxClock
        /\ now' = now + 1
        /\ UNCHANGED <<parser, ingestor, fs, pc, log_entry, origin, history, call, output, escaped>>

\* the elements of a sequence
Range(seq) == {seq[i] : i \in 1..Len(seq)}

\* the caller takes the next record of a source reader
Receive == /\ pc = "idle"
           /\ \E file_path \in DOMAIN fs :
                 \E record \in Range(ingest_file(fs, file_path, NoFault(fs[file_path]), now).records) :
                    log_entry' = record
           /\ pc' = "holding"
           /\ UNCHANGED <<parser, ingestor, fs, now, origin, history, call, output, escaped>>

\* the caller takes the record of a syslog line built from known parts
ReceiveSyslog == /\ pc = "idle"
                 /\ \E pri \in PriValues, hostname \in Hostnames, program \in Programs, message \in Payloads :
                       /\ log_entry' = TextRecord(BuildSyslog(pri, hostname, program, message), "samples/syslog.log", 1, now)
                       /\ origin' = [built |-> TRUE, pri |-> pri, hostname |-> hostname, program |-> program, message |-> message]
                 /\ pc' = "holding"
                 /\ UNCHANGED <<parser, ingestor, fs, now, history, call, output, escaped>>

\* parser.parse(log_entry)
Parse == /\ pc = "holding"
         /\ Len(history) < MaxCalls
         /\ \E outcome \in {parse(parser, log_entry, now)} :
               /\ history' = Append(history, [raised |-> outcome.raised, result |-> outcome.result, at |-> now])
               /\ log_entry' = outcome.entry
               /\ parser' = outcome.self
         /\ UNCHANGED <<ingestor, fs, now, pc, origin, call, output, escaped>>

\* the caller drops the record and goes on to the next
Discard == /\ pc = "holding"
           /\ pc' = "idle"
           /\ log_entry' = EmptyDict
           /\ origin' = NoOrigin
           /\ history' = <<>>
           /\ UNCHANGED <<parser, ingestor, fs, now, call, output, escaped>>

\* list(ingestor.ingest_file(file_path)), with the I/O failure of the call
IngestFile == /\ pc = "idle"
              /\ pc' = "ingested"
              /\ \E file_path \in DOMAIN fs :
                    \E fail_at \in 0..NoFault(fs[file_path]) :
                       \E outcome \in {ingest_file(fs, file_path, fail_at, now)} :
                          /\ call' = [op |-> "ingest_file", path |-> file_path, order |-> <<file_path>>, faults |-> (file_path :> fail_at)]
                          /\ output' = outcome.records
                          /\ escaped' = outcome.raised
              /\ UNCHANGED <<parser, ingestor, fs, now, log_entry, origin, history>>

\* the orders a set of paths can be enumerated in
Orders(S) == {order \in [1..Cardinality(S) -> S] : \A i, j \in 1..Cardinality(S) : i # j => order[i] # order[j]}

\* the I/O failures of a call over a set of files, one fail_at for each
Faults(files, S) == {faults \in [S -> 0..(MaxLogLines + 1)] : \A p \in S : faults[p] <= NoFault(files[p])}

\* list(ingestor.ingest_directory(directory_path)), with the order the file
\* system enumerates the files in and the I/O failure of each file
IngestDirectory == /\ pc = "idle"
                   /\ pc' = "ingested"
                   /\ \E directory_path \in DOMAIN fs :
                         \E order \in Orders(RGlobLog(fs, directory_path)) :
                            \E faults \in Faults(fs, RGlobLog(fs, directory_path)) :
                               \E outcome \in {ingest_directory(fs, directory_path, order, faults, now)} :
                                  /\ call' = [op |-> "ingest_directory", path |-> directory_path, order |-> order, faults |-> faults]
                                  /\ output' = outcome.records
                                  /\ escaped' = outcome.raised
                   /\ UNCHANGED <<parser, ingestor, fs, now, log_entry, origin, history>>

\* the caller is done with the records of the call
Consume == /\ pc = "ingested"
           /\ pc' = "idle"
           /\ call' = NoCall
           /\ output' = <<>>
           /\ escaped' = ""
           /\ UNCHANGED <<parser, ingestor, fs, now, log_entry, origin, history>>

Next == Tick \/ Receive \/ ReceiveSyslog \/ Parse \/ Discard

Spec == Init /\ [][Next]_vars

NextIngest == IngestFile \/ IngestDirectory \/ Consume

SpecIngest == InitIngest /\ [][NextIngest]_vars

-----------------------------------------------------------------------------
(* Properties.                                                             *)

Levels == {"ERROR", "WARNING", "INFO", "DEBUG"}

\* the message a parse call reads from the record
MessageOf(record) == Get(record, "message", PyStr(""))

\* the parse calls on the held record that returned
ReturnedCalls == {i \in 1..Len(history) : history[i].raised = ""}

RECURSIVE UpperTable(_)
UpperTable(i) == IF i = 0 THEN <<>> ELSE (Ch(LowerAlphabet, i) :> Ch(UpperAlphabet, i)) @@ UpperTable(i - 1)

\* the upper-case letter of each lower-case letter
UpperOf == UpperTable(Len(LowerAlphabet))

RECURSIVE ToUpperRange(_, _, _)
ToUpperRange(s, i, j) == IF i > j THEN "" ELSE IF i = j THEN (IF Ch(s, i) \in LowerChars THEN UpperOf[Ch(s, i)] ELSE Ch(s, i)) ELSE ToUpperRange(s, i, (i + j) \div 2) \o ToUpperRange(s, ((i + j) \div 2) + 1, j)

\* the message in upper case
ToUpper(s) == ToUpperRange(s, 1, Len(s))

\* C1: for every parser variant and every record whose message is a string
\* or missing, also one that brings a log_level of its own, parse returns a
\* record whose log_level is one of ERROR, WARNING, INFO, DEBUG, and the
\* upper-case and the lower-case form of the message get the same level
C1_LogLevelEnumerated == LET message == MessageOf(log_entry)
                             upper == PyStr(_classify_log_level(parser.patterns, ToUpper(message.s)))
                             lower == PyStr(_classify_log_level(parser.patterns, ToLower(message.s)))
                         IN  (message.t = "str" /\ history # <<>>) => \A i \in 1..Len(history) : /\ history[i].raised = ""
                                                                                                  /\ "log_level" \in DOMAIN history[i].result
                                                                                                  /\ \E level \in Levels : history[i].result["log_level"] = PyStr(level)
                                                                                                  /\ history[i].result["log_level"] = upper
                                                                                                  /\ history[i].result["log_level"] = lower

\* C1 witness: a record that came with log_level AUDIT and a mixed-case
\* message was parsed, and the result carries WARNING
C1_Witness == /\ Len(history) >= 1
              /\ Get(log_entry, "log_level", PyNone) = PyStr("AUDIT")
              /\ MessageOf(log_entry).t = "str"
              /\ ToUpper(MessageOf(log_entry).s) # MessageOf(log_entry).s
              /\ history[1].result["log_level"] = PyStr("WARNING")

\* C2: two parse calls on the same record, at any two points in time, return
\* records with the same content, and leave the parser as it was
C2_ParseIdempotent == /\ \A i, j \in ReturnedCalls : history[i].result = history[j].result
                      /\ parser.patterns = _load_patterns

\* a set of numbers as the ascending sequence
Ascending(S) == [i \in 1..Cardinality(S) |-> CHOOSE k \in S : Cardinality({l \in S : l < k}) = i - 1]

\* the lines of a file that are blank
BlankLines(file) == {i \in 1..Len(file.lines) : Strip(file.lines[i]) = ""}

\* the lines of a file that are not blank and do not decode as JSON
MalformedLines(file) == {i \in 1..Len(file.lines) : Strip(file.lines[i]) # "" /\ ~json_loads(file.lines[i]).ok}

\* the lines of a file that are not blank and decode as JSON
DecodableLines(file) == {i \in 1..Len(file.lines) : Strip(file.lines[i]) # "" /\ json_loads(file.lines[i]).ok}

\* C3: ingest_file over a .json file, with no I/O failure, yields one record
\* for each line that is not blank and decodes, in the order of the lines,
\* as many as the file has lines that are neither blank nor malformed
C3_JsonSkipsOnlyMalformed == (call.op = "ingest_file" /\ ToLower(PathSuffix(call.path)) = ".json" /\ fs[call.path].kind = "file" /\ call.faults[call.path] = NoFault(fs[call.path])) => /\ Len(output) = Len(fs[call.path].lines) - Cardinality(BlankLines(fs[call.path])) - Cardinality(MalformedLines(fs[call.path]))
                                                                                                                                                                                         /\ [i \in 1..Len(output) |-> output[i]["_line_number"].n] = Ascending(DecodableLines(fs[call.path]))

\* the numbers of the lines of a file whose records are due: the lines that
\* are not blank, before the line the I/O failure hits
DueLines(file, fail_at) == IF file.kind = "file" /\ fail_at > 0 THEN {k \in 1..Len(file.lines) : k < fail_at /\ Strip(file.lines[k]) # ""} ELSE {}

\* source, line number and message of the records due from a plain-text file
DueOfFile(file_path, fail_at) == [i \in 1..Cardinality(DueLines(fs[file_path], fail_at)) |-> <<PyStr(file_path), PyInt(Ascending(DueLines(fs[file_path], fail_at))[i]), PyStr(Strip(fs[file_path].lines[Ascending(DueLines(fs[file_path], fail_at))[i]]))>>]

RECURSIVE DueOfDirectory(_)
\* the same of the files of the call from the i-th on, in the order of the call
DueOfDirectory(i) == IF i > Len(call.order) THEN <<>> ELSE DueOfFile(call.order[i], call.faults[call.order[i]]) \o DueOfDirectory(i + 1)

\* source, line number and message of the records the call yielded
Yielded == [i \in 1..Len(output) |-> <<output[i]["_file_source"], output[i]["_line_number"], output[i]["message"]>>]

\* C4: in ingest_directory an I/O failure on a file, at open or at any line,
\* ends that file's records only: no exception reaches the caller, the
\* records read before the failure and every record of the files visited
\* afterwards are yielded; a path that does not exist yields nothing and
\* raises nothing
C4_IOFailureIsLocal == /\ escaped = ""
                       /\ call.op = "ingest_directory" => (IF fs[call.path].kind = "dir" THEN Yielded = DueOfDirectory(1) ELSE output = <<>>)
                       /\ (call.op = "ingest_file" /\ fs[call.path].kind = "missing") => output = <<>>

\* C4 witness: a directory ingest in which reading line 2 of the first file
\* failed after line 1 was yielded, and the second file was still read
C4_Witness == /\ call.op = "ingest_directory"
              /\ Len(call.order) = 2
              /\ call.faults[call.order[1]] = 2
              /\ Len(output) >= 2
              /\ output[1]["_file_source"] = PyStr(call.order[1])
              /\ output[Len(output)]["_file_source"] = PyStr(call.order[2])

\* the keyword is found in the message, whatever the case of the letters
Found(message, keywords) == \E keyword \in keywords : Contains(ToLower(message), keyword)

\* the level the rules of C5 give
LevelByRules(message) == IF Found(message, {"error", "fail", "exception", "critical"}) THEN "ERROR" ELSE IF Found(message, {"warn", "warning", "alert"}) THEN "WARNING" ELSE IF Found(message, {"info"}) THEN "INFO" ELSE IF Found(message, {"debug"}) THEN "DEBUG" ELSE "INFO"

\* C5: the log_level is ERROR when error, fail, exception or critical is
\* found in the message, else WARNING when warn, warning or alert is found,
\* else INFO when it contains info, else DEBUG when it contains debug, else
\* INFO; the "Failed password" line of the specification is ERROR
C5_ClassifyByRules == \A i \in ReturnedCalls : /\ history[i].result["log_level"] = PyStr(LevelByRules(MessageOf(log_entry).s))
                                               /\ MessageOf(log_entry).s = TextSamples[1] => history[i].result["log_level"] = PyStr("ERROR")

\* the text is a decimal number
IsNumber(text) == text # "" /\ \A k \in 1..Len(text) : Ch(text, k) \in DigitChars

\* the last field of a line, after its last space
LastField(line) == SubSeq(line, Min({k \in 1..(Len(line) + 1) : \A l \in k..Len(line) : Ch(line, l) # " "}), Len(line))

\* C6: on a Common Log Format match status_code is an integer, and
\* response_size is an integer: the number in the size field, 0 for "-"
C6_ResponseSizeIsInteger == \A i \in ReturnedCalls : "status_code" \in DOMAIN history[i].result => /\ history[i].result["status_code"].t = "int"
                                                                                                   /\ history[i].result["response_size"].t = "int"
                                                                                                   /\ LastField(MessageOf(log_entry).s) = "-" => history[i].result["response_size"] = PyInt(0)
                                                                                                   /\ IsNumber(LastField(MessageOf(log_entry).s)) => history[i].result["response_size"] = PyInt(DigitsToInt(LastField(MessageOf(log_entry).s)))

Provenance == {"_file_source", "_line_number"}

\* C7: a parse call leaves the caller's record as it was, and the record it
\* returns carries the _file_source and _line_number of the caller's record
C7_ParseCopiesRecord == [][Len(history') = Len(history) + 1 => /\ log_entry' = log_entry
                                                               /\ history'[Len(history')].raised = "" => \A key \in Provenance \cap DOMAIN log_entry : /\ key \in DOMAIN history'[Len(history')].result
                                                                                                                                                       /\ history'[Len(history')].result[key] = log_entry[key]]_vars

\* C7 witness: the syslog parser matched a record that has both provenance
\* fields and added its own fields to the result
C7_Witness == /\ Len(history) >= 1
              /\ history[1].raised = ""
              /\ Provenance \subseteq DOMAIN log_entry
              /\ "hostname" \in DOMAIN history[1].result
              /\ "hostname" \notin DOMAIN log_entry

\* C8: parse raises on no record a source reader can produce, and returns
\* the generic fields
C8_ParseNeverRaises == \A i \in 1..Len(history) : /\ history[i].raised = ""
                                                  /\ {"ip_addresses", "users", "log_level"} \subseteq DOMAIN history[i].result

\* the text without the white space around it
Trimmed(s) == IF \A k \in 1..Len(s) : IsSpace(Ch(s, k)) THEN "" ELSE SubSeq(s, Min({k \in 1..Len(s) : ~IsSpace(Ch(s, k))}), Len(s) + 1 - Min({k \in 1..Len(s) : ~IsSpace(Ch(s, Len(s) + 1 - k))}))

\* C9: the syslog parser turns the line built from PRI, hostname, program
\* and message into facility PRI div 8, severity PRI mod 8, both integers,
\* the same hostname and program, and the message trimmed
C9_SyslogRoundTrip == LET trimmed == PyStr(Trimmed(origin.message))
                      IN  (origin.built /\ parser.kind = "SyslogParser") => \A i \in 1..Len(history) : /\ history[i].raised = ""
                                                                                                       /\ {"syslog_facility", "syslog_severity", "hostname", "program", "parsed_message"} \subseteq DOMAIN history[i].result
                                                                                                       /\ history[i].result["syslog_facility"] = PyInt(origin.pri \div 8)
                                                                                                       /\ history[i].result["syslog_severity"] = PyInt(origin.pri % 8)
                                                                                                       /\ history[i].result["hostname"] = PyStr(origin.hostname)
                                                                                                       /\ history[i].result["program"] = PyStr(origin.program)
                                                                                                       /\ history[i].result["parsed_message"] = trimmed

\* C9 witness: the syslog parser parsed a line built with a PRI of three
\* digits, a hostname holding a colon and a message with white space around
C9_Witness == /\ origin.built
              /\ parser.kind = "SyslogParser"
              /\ Len(history) >= 1
              /\ origin.pri > 99
              /\ Contains(origin.hostname, ":")
              /\ Trimmed(origin.message) # origin.message

\* the PRI of a message that starts with <PRI>
PriOf(message) == DigitsToInt(SubSeq(message, 2, Min({k \in 1..Len(message) : Ch(message, k) = ">"}) - 1))

\* C10: facility and severity of a syslog match are both codes 0-7 with an
\* entry in the facility and severity name tables
C10_CodesInNameTables == \A i \in ReturnedCalls : "syslog_facility" \in DOMAIN history[i].result => /\ history[i].result["syslog_facility"].n \in DOMAIN facility_names
                                                                                                    /\ history[i].result["syslog_severity"].n \in DOMAIN severity_names

\* C10 as amended: the severity of a syslog match is a code 0-7 with an
\* entry in the severity name table; the facility is PRI div 8, which has an
\* entry in the facility name table exactly when PRI is at most 63
C10_SeverityInNameTable == LET pri == PriOf(MessageOf(log_entry).s)
                           IN  \A i \in ReturnedCalls : "syslog_facility" \in DOMAIN history[i].result => /\ history[i].result["syslog_severity"].t = "int"
                                                                                                          /\ history[i].result["syslog_severity"].n \in 0..7
                                                                                                          /\ history[i].result["syslog_severity"].n \in DOMAIN severity_names
                                                                                                          /\ history[i].result["syslog_facility"] = PyInt(pri \div 8)
                                                                                                          /\ history[i].result["syslog_facility"].n \in DOMAIN facility_names <=> pri <= 63

\* C10 witness: a syslog match stored a facility above 7
C10_Witness == /\ Len(history) >= 1
               /\ history[1].raised = ""
               /\ "syslog_facility" \in DOMAIN history[1].result
               /\ history[1].result["syslog_facility"].n > 7

====
